---- MODULE Spec2Model ----
(***************************************************************************)
(* hexamine (src/main.rs): a hex/ASCII dump of a binary file with a 16-bit  *)
(* address column.  The model follows main() step by step: open the file,   *)
(* resolve the origin, build the LineFormat, then the byte-by-byte read     *)
(* loop that calls print_buffer.  Text is modelled as sequences of          *)
(* one-character strings so that the layout of a line can be checked        *)
(* character by character.                                                  *)
(***************************************************************************)
EXTENDS Integers, Sequences, FiniteSets, TLC

\* ------------------------------------------------------------------ bounds
\* Longest file that is dumped.
MaxLen == 40

\* ------------------------------------------------------- program constants
STD_BYTES_PER_LINE == 16
STD_BYTES_PER_SEGMENT == 8
WOZ_BYTES_PER_LINE == 8
WOZ_BYTES_PER_SEGMENT == 0

\* ------------------------------------------------------------------ inputs
\* The first two bytes of the files that are tried (little-endian origins
\* 0x1234, 0xFFFB and 0x0000).
Headers == { <<52, 18>>, <<251, 255>>, <<0, 0>> }

\* The remaining bytes follow a ramp; the ramps cross 0x1F/0x20, 0x7E/0x7F
\* and 0xFF/0x00.
Ramps == { 27, 122, 248 }

FileOf(h, p, L) == [i \in 1..L |-> IF i <= 2 THEN h[i] ELSE (p + i) % 256]

FileContents == { FileOf(h, p, L) : h \in Headers, p \in Ramps, L \in 0..MaxLen }

\* Cli.file: a path that cannot be opened, or a file with its bytes.
NoFile == [exists |-> FALSE, bytes |-> <<>>]
Files == { NoFile } \cup { [exists |-> TRUE, bytes |-> b] : b \in FileContents }

\* Cli.origin: Option<String>.
NoOrigin == [some |-> FALSE, s |-> <<>>]
OriginStrings ==
  { <<"0">>, <<"0", "0">>, <<"8">>, <<"1", "B">>, <<"2", "0">>,
    <<"f", "f", "f", "5">>, <<"1", "0", "0", "0", "C">>, <<"+", "4">>,
    <<"z", "z">>, <<>>, <<"-", "1">>, <<"+">>, <<"1", "G">> }
Origins == { NoOrigin } \cup { [some |-> TRUE, s |-> s] : s \in OriginStrings }

\* --------------------------------------------------------------- text
HexDigits == <<"0", "1", "2", "3", "4", "5", "6", "7",
               "8", "9", "A", "B", "C", "D", "E", "F">>
LowerHexDigits == <<"0", "1", "2", "3", "4", "5", "6", "7",
                    "8", "9", "a", "b", "c", "d", "e", "f">>

\* The characters 0x20 .. 0x7E, in order (0x60 is written by its code point).
PrintableChars ==
  <<
     " ", "!", "\"", "#", "$", "%", "&", "'", "(", ")", "*", "+", ",", "-", ".", "/",
     "0", "1", "2", "3", "4", "5", "6", "7", "8", "9", ":", ";", "<", "=", ">", "?",
     "@", "A", "B", "C", "D", "E", "F", "G", "H", "I", "J", "K", "L", "M", "N", "O",
     "P", "Q", "R", "S", "T", "U", "V", "W", "X", "Y", "Z", "[", "\\", "]", "^", "_",
     "U+0060", "a", "b", "c", "d", "e", "f", "g", "h", "i", "j", "k", "l", "m", "n", "o",
     "p", "q", "r", "s", "t", "u", "v", "w", "x", "y", "z", "{", "|", "}", "~"
  >>

RECURSIVE Spaces(_)
Spaces(n) == IF n <= 0 THEN <<>> ELSE <<" ">> \o Spaces(n - 1)

\* The hexadecimal digits of n, most significant first, no padding.
RECURSIVE UpperHex(_)
UpperHex(n) ==
  IF n < 16 THEN <<HexDigits[n + 1]>>
  ELSE UpperHex(n \div 16) \o <<HexDigits[(n % 16) + 1]>>

RECURSIVE Zeros(_)
Zeros(n) == IF n <= 0 THEN <<>> ELSE <<"0">> \o Zeros(n - 1)

\* format!("{:0wX}", n): zero-padded to at least w digits, never truncated.
FormatHex(n, w) == LET d == UpperHex(n) IN Zeros(w - Len(d)) \o d

\* --------------------------------------------------- usize::from_str_radix
IsHexChar(c) ==
  \/ \E k \in 1..16 : HexDigits[k] = c
  \/ \E k \in 1..16 : LowerHexDigits[k] = c

DigitValue(c) ==
  IF \E k \in 1..16 : HexDigits[k] = c
  THEN (CHOOSE k \in 1..16 : HexDigits[k] = c) - 1
  ELSE (CHOOSE k \in 1..16 : LowerHexDigits[k] = c) - 1

RECURSIVE DigitsValue(_, _)
DigitsValue(ds, acc) ==
  IF ds = <<>> THEN acc ELSE DigitsValue(Tail(ds), acc * 16 + DigitValue(Head(ds)))

\* A mis-parse that treats an unparsable string as zero.
parse_hex_lenient(s) ==
  LET digits == IF s # <<>> /\ Head(s) = "+" THEN Tail(s) ELSE s
  IN IF digits # <<>> /\ \A k \in 1..Len(digits) : IsHexChar(digits[k])
     THEN [ok |-> TRUE, val |-> DigitsValue(digits, 0)]
     ELSE [ok |-> TRUE, val |-> 0]

\* parse_hex: an optional leading "+", then one or more hex digits of either
\* case; anything else (empty, a lone sign, "-", a non-hex character) is an
\* error.  The strings tried are too short to overflow a usize.
parse_hex(s) ==
  LET digits == IF s # <<>> /\ Head(s) = "+" THEN Tail(s) ELSE s
  IN IF digits # <<>> /\ \A k \in 1..Len(digits) : IsHexChar(digits[k])
     THEN [ok |-> TRUE, val |-> DigitsValue(digits, 0)]
     ELSE [ok |-> FALSE, val |-> 0]

\* ------------------------------------------------------------ print_buffer
\* The address mask left out.
Mask16_None(a) == a

\* line_addr & 0xFFFF
Mask16(a) == a % 65536

\* (fmt.bytes_per_segment > 0) && (pos % fmt.bytes_per_segment) == 0
SegmentGap(pos, f) ==
  f.bytes_per_segment > 0 /\ pos % f.bytes_per_segment = 0

\* Right padding that ignores show_ascii.
PadSlot_Always(pos, i, n, f) == pos < f.left_padding \/ i >= n

\* (pos < fmt.left_padding) || (fmt.show_ascii && i >= bytes.len())
PadSlot(pos, i, n, f) ==
  pos < f.left_padding \/ (f.show_ascii /\ i >= n)

\* The for loop over the slots of the hex part; i is the cursor into bytes.
RECURSIVE HexLoop(_, _, _, _)
HexLoop(bytes, f, pos, i) ==
  IF pos >= f.bytes_per_line THEN <<>>
  ELSE LET gap == IF SegmentGap(pos, f) THEN <<" ">> ELSE <<>>
       IN IF PadSlot(pos, i, Len(bytes), f)
          THEN gap \o <<" ", " ", " ">> \o HexLoop(bytes, f, pos + 1, i)
          ELSE IF i < Len(bytes)
               THEN gap \o <<" ">> \o FormatHex(bytes[i + 1], 2)
                        \o HexLoop(bytes, f, pos + 1, i + 1)
               ELSE gap \o HexLoop(bytes, f, pos + 1, i)

\* An off-by-one lower limit of the printable range.
IsPrintable_NoSpace(b) == b > 32 /\ b < 127

\* *byte >= 0x20_u8 && *byte < 0x7F
IsPrintable(b) == b >= 32 /\ b < 127

AsciiChar(b) == IF IsPrintable(b) THEN PrintableChars[b - 31] ELSE "."

AsciiPart(bytes, f) ==
  IF f.show_ascii
  THEN Spaces(f.left_padding + 2) \o [k \in 1..Len(bytes) |-> AsciiChar(bytes[k])]
  ELSE <<>>

\* The line that print_buffer writes to standard output.
print_buffer(bytes, la, f) ==
  FormatHex(Mask16(la), 4) \o <<":">> \o HexLoop(bytes, f, 0, 0) \o AsciiPart(bytes, f)

\* ------------------------------------------------------------------- main
\* Byte order swapped.
OriginFromBytes_BigEndian(b0, b1) == b0 * 256 + b1

\* (origin_buffer[1] as usize) * 0x100 + origin_buffer[0] as usize
OriginFromBytes(b0, b1) == b1 * 256 + b0

\* A short read taken for a full one (missing bytes stay 0).
read_exact_short(bytes, pos, n) ==
  [ok |-> TRUE,
   pos |-> IF Len(bytes) - pos >= n THEN pos + n ELSE Len(bytes),
   buf |-> [k \in 1..n |-> IF pos + k <= Len(bytes) THEN bytes[pos + k] ELSE 0]]

\* buf_reader.read_exact: fills the buffer or fails; on failure whatever was
\* left of the stream has been read.
read_exact(bytes, pos, n) ==
  IF Len(bytes) - pos >= n
  THEN [ok |-> TRUE, pos |-> pos + n, buf |-> [k \in 1..n |-> bytes[pos + k]]]
  ELSE [ok |-> FALSE, pos |-> Len(bytes), buf |-> [k \in 1..n |-> 0]]

\* Left padding taken modulo the segment length.
LeftPadding_Segment(a) == a % STD_BYTES_PER_SEGMENT

\* left_padding: addr % STD_BYTES_PER_LINE
LeftPadding(a) == a % STD_BYTES_PER_LINE

WozFormat ==
  [bytes_per_line |-> WOZ_BYTES_PER_LINE, bytes_per_segment |-> WOZ_BYTES_PER_SEGMENT,
   left_padding |-> 0, show_ascii |-> FALSE]

StdFormat(a) ==
  [bytes_per_line |-> STD_BYTES_PER_LINE, bytes_per_segment |-> STD_BYTES_PER_SEGMENT,
   left_padding |-> LeftPadding(a), show_ascii |-> TRUE]

\* The value of fmt before it is initialised.
NoFormat ==
  [bytes_per_line |-> 0, bytes_per_segment |-> 0, left_padding |-> 0, show_ascii |-> FALSE]

\* The boundary test done against the standard line length in every layout.
AtLineBoundary_Std(a, f) == a % STD_BYTES_PER_LINE = 0

\* addr % fmt.bytes_per_line == 0
AtLineBoundary(a, f) == a % f.bytes_per_line = 0

\* The partial last line dropped.
FlushAtEof_Never(buf) == FALSE

\* !line_buffer.is_empty()
FlushAtEof(buf) == buf # <<>>

\* The next line's address stepped by the line length.
NextLineAddr_Step(a, la, f) == la + f.bytes_per_line

\* line_addr = addr
NextLineAddr(a, la, f) == a

VARIABLES
  file,         \* Cli.file
  origin,       \* Cli.origin
  woz,          \* Cli.woz
  pc,           \* position in main: "open", "origin", "format", "loop", "done"
  exit,         \* "running", "ok" (main returned Ok) or "io_error" (returned Err)
  reader_pos,   \* bytes of the file consumed through buf_reader
  addr,         \* the running, unmasked address
  fmt,          \* the LineFormat
  line_buffer,  \* bytes of the current line
  line_addr,    \* address of the first byte of the current line
  stdout,       \* the lines printed, each a sequence of characters
  calls,        \* the arguments of every print_buffer call, in order
  stderr        \* the diagnostics printed

vars == <<file, origin, woz, pc, exit, reader_pos, addr, fmt,
          line_buffer, line_addr, stdout, calls, stderr>>

Init ==
  /\ file \in Files
  /\ origin \in Origins
  /\ woz \in BOOLEAN
  /\ pc = "open"
  /\ exit = "running"
  /\ reader_pos = 0
  /\ addr = 0
  /\ fmt = NoFormat
  /\ line_buffer = <<>>
  /\ line_addr = 0
  /\ stdout = <<>>
  /\ calls = <<>>
  /\ stderr = <<>>

\* File::open(args.file)?
OpenFile ==
  /\ pc = "open"
  /\ IF file.exists
     THEN /\ pc' = "origin"
          /\ UNCHANGED <<exit, stderr>>
     ELSE /\ pc' = "done"
          /\ exit' = "io_error"
          /\ stderr' = Append(stderr, "io_error")
  /\ UNCHANGED <<file, origin, woz, reader_pos, addr, fmt,
                 line_buffer, line_addr, stdout, calls>>

\* if let Some(origin) = args.origin.as_deref() { ... }
ResolveOrigin ==
  /\ pc = "origin"
  /\ IF ~origin.some
     THEN /\ pc' = "format"
          /\ UNCHANGED <<addr, exit, reader_pos, stderr>>
     ELSE LET r == parse_hex(origin.s) IN
          IF ~r.ok
          THEN /\ pc' = "done"
               /\ exit' = "ok"
               /\ stderr' = Append(stderr, "invalid_hex")
               /\ UNCHANGED <<addr, reader_pos>>
          ELSE IF r.val = 0
               THEN LET rd == read_exact(file.bytes, reader_pos, 2) IN
                    IF rd.ok
                    THEN /\ pc' = "format"
                         /\ addr' = OriginFromBytes(rd.buf[1], rd.buf[2])
                         /\ reader_pos' = rd.pos
                         /\ UNCHANGED <<exit, stderr>>
                    ELSE /\ pc' = "done"
                         /\ exit' = "io_error"
                         /\ addr' = r.val
                         /\ reader_pos' = rd.pos
                         /\ stderr' = Append(stderr, "io_error")
               ELSE /\ pc' = "format"
                    /\ addr' = r.val
                    /\ UNCHANGED <<exit, reader_pos, stderr>>
  /\ UNCHANGED <<file, origin, woz, fmt, line_buffer, line_addr, stdout, calls>>

\* let mut fmt = if args.woz {...} else {...}; the buffers; line_addr = addr
InitFormat ==
  /\ pc = "format"
  /\ fmt' = IF woz THEN WozFormat ELSE StdFormat(addr)
  /\ line_buffer' = <<>>
  /\ line_addr' = addr
  /\ pc' = "loop"
  /\ UNCHANGED <<file, origin, woz, exit, reader_pos, addr,
                 stdout, calls, stderr>>

\* One iteration of the main loop.
LoopStep ==
  /\ pc = "loop"
  /\ IF reader_pos >= Len(file.bytes)
     THEN \* bytes_read == 0
          /\ IF FlushAtEof(line_buffer)
             THEN /\ stdout' = Append(stdout, print_buffer(line_buffer, line_addr, fmt))
                  /\ calls' = Append(calls, [bytes |-> line_buffer, line_addr |-> line_addr,
                                             fmt |-> fmt])
             ELSE UNCHANGED <<stdout, calls>>
          /\ pc' = "done"
          /\ exit' = "ok"
          /\ UNCHANGED <<reader_pos, addr, fmt, line_buffer, line_addr>>
     ELSE LET buf == Append(line_buffer, file.bytes[reader_pos + 1])
              a == addr + 1
          IN /\ reader_pos' = reader_pos + 1
             /\ addr' = a
             /\ IF AtLineBoundary(a, fmt)
                THEN /\ stdout' = Append(stdout, print_buffer(buf, line_addr, fmt))
                     /\ calls' = Append(calls, [bytes |-> buf, line_addr |-> line_addr,
                                                fmt |-> fmt])
                     /\ line_buffer' = <<>>
                     /\ fmt' = [fmt EXCEPT !.left_padding = 0]
                     /\ line_addr' = NextLineAddr(a, line_addr, fmt)
                ELSE /\ line_buffer' = buf
                     /\ UNCHANGED <<stdout, calls, fmt, line_addr>>
             /\ UNCHANGED <<pc, exit>>
  /\ UNCHANGED <<file, origin, woz, stderr>>

Next == OpenFile \/ ResolveOrigin \/ InitFormat \/ LoopStep

Spec == Init /\ [][Next]_vars

\* ======================================================================
\* What a run is expected to do, stated apart from the code above.
\* ======================================================================

\* The --origin strings that are not hexadecimal numbers.
InvalidStrings == { <<"z", "z">>, <<>>, <<"-", "1">>, <<"+">>, <<"1", "G">> }
\* The --origin strings whose value is zero.
ZeroStrings == { <<"0">>, <<"0", "0">> }

OriginInvalid == origin.some /\ origin.s \in InvalidStrings
OriginDerive == origin.some /\ origin.s \in ZeroStrings

ExplicitValue(s) ==
  CASE s = <<"8">> -> 8
    [] s = <<"1", "B">> -> 27
    [] s = <<"2", "0">> -> 32
    [] s = <<"f", "f", "f", "5">> -> 65525
    [] s = <<"1", "0", "0", "0", "C">> -> 65548
    [] s = <<"+", "4">> -> 4

\* The starting address A of a run whose origin resolves.
StartAddress ==
  IF ~origin.some THEN 0
  ELSE IF OriginDerive THEN file.bytes[2] * 256 + file.bytes[1]
  ELSE ExplicitValue(origin.s)

\* The origin resolved: main went on to the dump.
Resolved ==
  /\ file.exists
  /\ ~OriginInvalid
  /\ pc \in {"format", "loop"} \/ (pc = "done" /\ exit = "ok")

BytesPerLine == IF woz THEN 8 ELSE 16
OriginBytes == IF OriginDerive THEN 2 ELSE 0
\* L': the bytes of the file after the origin bytes.
Remaining == Len(file.bytes) - OriginBytes
CeilDiv(a, b) == (a + b - 1) \div b

HexCharValue(c) == (CHOOSE k \in 1..16 : HexDigits[k] = c) - 1
IsUpperHexChar(c) == \E k \in 1..16 : HexDigits[k] = c
Hex2(b) == <<HexDigits[(b \div 16) + 1], HexDigits[(b % 16) + 1]>>
ShownChar(b) == IF b \in 32..126 THEN PrintableChars[b - 31] ELSE "."

ColonAt(l) == CHOOSE k \in 1..Len(l) : l[k] = ":" /\ \A j \in 1..(k - 1) : l[j] # ":"

RECURSIVE HexStringValue(_, _)
HexStringValue(ds, acc) ==
  IF ds = <<>> THEN acc ELSE HexStringValue(Tail(ds), acc * 16 + HexCharValue(Head(ds)))

\* The address read back from a printed line's header.
DisplayedAddr(l) == HexStringValue(SubSeq(l, 1, ColonAt(l) - 1), 0)

\* The hex part of a printed line: in the standard layout the 50 characters
\* after the colon, in the wozmon layout the rest of the line.
HexRegion(l) ==
  LET c == ColonAt(l)
  IN IF woz THEN SubSeq(l, c + 1, Len(l))
     ELSE SubSeq(l, c + 1, IF Len(l) < c + 50 THEN Len(l) ELSE c + 50)

RECURSIVE ParseHexBytes(_)
ParseHexBytes(r) ==
  IF r = <<>> THEN <<>>
  ELSE IF Head(r) = " " THEN ParseHexBytes(Tail(r))
  ELSE IF Len(r) >= 2
       THEN <<HexCharValue(r[1]) * 16 + HexCharValue(r[2])>>
              \o ParseHexBytes(SubSeq(r, 3, Len(r)))
       ELSE <<>>

\* The bytes read back from the hex part of a printed line.
PrintedBytes(l) == ParseHexBytes(HexRegion(l))

RECURSIVE AllPrintedBytes(_)
AllPrintedBytes(ls) ==
  IF ls = <<>> THEN <<>> ELSE PrintedBytes(Head(ls)) \o AllPrintedBytes(Tail(ls))

RECURSIVE CallBytes(_)
CallBytes(cs) == IF cs = <<>> THEN <<>> ELSE Head(cs).bytes \o CallBytes(Tail(cs))

\* The bytes the main loop has read: those handed to print_buffer and those
\* still waiting in the line buffer (which the end-of-file flush leaves as is).
MainLoopBytes ==
  CallBytes(calls) \o (IF pc = "loop" THEN line_buffer ELSE <<>>)

AllSpaces(t) == \A k \in 1..Len(t) : t[k] = " "

\* ------------------------------------------------------------------ C1
\* C1 (as claimed): a run that dumps the file emits ceil(L' / bytes_per_line)
\* lines, for every origin setting.
C1_LineCount_Claimed ==
  (Resolved /\ exit = "ok") => Len(stdout) = CeilDiv(Remaining, BytesPerLine)

\* C1 (amended): a run that dumps the file emits
\* ceil(((A mod bytes_per_line) + L') / bytes_per_line) lines when L' > 0,
\* A being the starting address, and no line when L' = 0.
C1_LineCount ==
  (Resolved /\ exit = "ok") =>
     Len(stdout) = IF Remaining = 0 THEN 0
                   ELSE CeilDiv((StartAddress % BytesPerLine) + Remaining, BytesPerLine)

C1_Witness ==
  /\ Resolved /\ exit = "ok"
  /\ StartAddress % BytesPerLine # 0
  /\ Len(stdout) >= 3
  /\ Len(stdout) # CeilDiv(Remaining, BytesPerLine)

\* ------------------------------------------------------------------ C2
\* C2 (as claimed): line k (k >= 0) shows the address (A + k * bytes_per_line)
\* mod 65536, for every starting address A.
C2_Address_Claimed ==
  Resolved =>
    \A k \in 1..Len(stdout) :
       DisplayedAddr(stdout[k]) = (StartAddress + (k - 1) * BytesPerLine) % 65536

\* C2 (amended): line 0 shows A mod 65536 and line k >= 1 shows
\* (A - (A mod bytes_per_line) + k * bytes_per_line) mod 65536; the two agree
\* with the claim when A is a multiple of bytes_per_line.
C2_Address ==
  Resolved =>
    \A k \in 1..Len(stdout) :
       DisplayedAddr(stdout[k]) =
          IF k = 1 THEN StartAddress % 65536
          ELSE (StartAddress - (StartAddress % BytesPerLine)
                  + (k - 1) * BytesPerLine) % 65536

C2_Witness ==
  /\ Resolved
  /\ Len(stdout) >= 3
  /\ StartAddress % BytesPerLine # 0
  /\ DisplayedAddr(stdout[3]) < DisplayedAddr(stdout[1])

\* ------------------------------------------------------------------ C3
\* C3: once the origin is resolved, two bytes of the file have been consumed
\* for it when the --origin value is zero and none otherwise; in the derive
\* case the address is byte[1] * 256 + byte[0], the dump holds the file from
\* its third byte on, and the first line carries the derived address.
C3_OriginResolver ==
  Resolved =>
    /\ reader_pos - Len(MainLoopBytes) = (IF OriginDerive THEN 2 ELSE 0)
    /\ pc = "format" => reader_pos = (IF OriginDerive THEN 2 ELSE 0)
    /\ OriginDerive =>
         /\ pc = "format" => addr = file.bytes[2] * 256 + file.bytes[1]
         /\ LET printed == AllPrintedBytes(stdout)
            IN printed = SubSeq(file.bytes, 3, 2 + Len(printed))
         /\ stdout # <<>> =>
              /\ PrintedBytes(stdout[1])[1] = file.bytes[3]
              /\ DisplayedAddr(stdout[1]) = file.bytes[2] * 256 + file.bytes[1]

C3_Witness ==
  /\ Resolved /\ OriginDerive
  /\ Len(stdout) >= 2
  /\ file.bytes[1] = 52 /\ file.bytes[2] = 18
  /\ DisplayedAddr(stdout[1]) = 4660

\* ------------------------------------------------------------------ C4
\* C4 (as claimed): whenever the --origin value is not hexadecimal, the run
\* reports it and ends with success, never an I/O failure, having printed no
\* line and consumed no byte.
C4_InvalidOrigin_Claimed ==
  OriginInvalid =>
    /\ stdout = <<>>
    /\ reader_pos = 0
    /\ pc = "done" => (exit = "ok" /\ stderr = <<"invalid_hex">>)

\* C4 (amended): whenever the file can be opened and the --origin value is
\* not hexadecimal, the run reports it and ends with success, having printed
\* no line and consumed no byte.
C4_InvalidOrigin ==
  (file.exists /\ OriginInvalid) =>
    /\ stdout = <<>>
    /\ reader_pos = 0
    /\ pc \in {"open", "origin", "done"}
    /\ pc = "done" => (exit = "ok" /\ stderr = <<"invalid_hex">>)

C4_Witness ==
  /\ file.exists /\ OriginInvalid
  /\ Len(file.bytes) >= 3
  /\ pc = "done" /\ exit = "ok"

\* ------------------------------------------------------------------ C5
\* C5: with --origin 0 a file of fewer than two bytes ends the run in an I/O
\* error without a dump line; in every other origin mode an empty file ends
\* the run with success and without an output line.
C5_ShortFile ==
  file.exists =>
    /\ (OriginDerive /\ Len(file.bytes) < 2) =>
          /\ stdout = <<>>
          /\ pc = "done" => exit = "io_error"
    /\ (~OriginDerive /\ Len(file.bytes) = 0) =>
          /\ stdout = <<>>
          /\ pc = "done" => exit = "ok"

C5_Witness ==
  /\ file.exists /\ OriginDerive
  /\ Len(file.bytes) = 1
  /\ pc = "done" /\ exit = "io_error"

\* ------------------------------------------------------------------ C6
\* Offset of hex slot s inside the standard layout's hex part.
StdSlotOffset(s) == 3 * s + (IF s < 8 THEN 1 ELSE 2)

IsHexSlot(t) == t[1] = " " /\ IsUpperHexChar(t[2]) /\ IsUpperHexChar(t[3])

\* C6: every standard line has a hex part of 16 three-character slots and
\* two segment gaps, followed by the separator and exactly one character per
\* byte; a wozmon line of n bytes has a hex part of exactly n slots and
\* nothing after it.
C6_Padding ==
  \A k \in 1..Len(calls) :
    LET c == calls[k]
        l == stdout[k]
        n == Len(c.bytes)
        lp == c.fmt.left_padding
    IN IF woz
       THEN /\ Len(l) = 5 + 3 * n
            /\ \A j \in 1..n :
                 SubSeq(l, 5 + 3 * (j - 1) + 1, 5 + 3 * j) = <<" ">> \o Hex2(c.bytes[j])
       ELSE /\ Len(l) = 5 + (16 * 3 + 2) + (lp + 2) + n
            /\ l[6] = " " /\ l[31] = " "
            /\ \A s \in 0..15 :
                 LET t == SubSeq(l, 5 + StdSlotOffset(s) + 1, 5 + StdSlotOffset(s) + 3)
                 IN AllSpaces(t) \/ IsHexSlot(t)
            /\ Cardinality({s \in 0..15 :
                 IsHexSlot(SubSeq(l, 5 + StdSlotOffset(s) + 1, 5 + StdSlotOffset(s) + 3))}) = n
            /\ AllSpaces(SubSeq(l, 56, 55 + lp + 2))
            /\ SubSeq(l, Len(l) - n + 1, Len(l)) = [j \in 1..n |-> ShownChar(c.bytes[j])]

C6_Witness ==
  /\ woz
  /\ Len(calls) >= 3
  /\ Len(calls[Len(calls)].bytes) \in 1..7

\* ------------------------------------------------------------------ C7
Hex4(a) ==
  <<HexDigits[(a \div 4096) + 1], HexDigits[((a \div 256) % 16) + 1],
    HexDigits[((a \div 16) % 16) + 1], HexDigits[(a % 16) + 1]>>

RECURSIVE JoinHex(_)
JoinHex(bs) ==
  IF Len(bs) = 1 THEN Hex2(bs[1]) ELSE Hex2(Head(bs)) \o <<" ">> \o JoinHex(Tail(bs))

\* A full standard line with gap spaces between the colon and the first byte.
FullLineTemplate(c, gap) ==
  Hex4(c.line_addr % 65536) \o <<":">> \o Spaces(gap)
    \o JoinHex(SubSeq(c.bytes, 1, 8)) \o <<" ", " ">>
    \o JoinHex(SubSeq(c.bytes, 9, 16)) \o <<" ", " ">>
    \o [j \in 1..16 |-> ShownChar(c.bytes[j])]

IsFullStdLine(c) == c.fmt.show_ascii /\ Len(c.bytes) = 16 /\ c.fmt.left_padding = 0

\* C7 (as claimed): a full standard line is the address, a colon, ONE space,
\* eight bytes, two spaces, eight bytes, two spaces and 16 characters.
C7_FullLine_Claimed ==
  \A k \in 1..Len(calls) :
    IsFullStdLine(calls[k]) => stdout[k] = FullLineTemplate(calls[k], 1)

\* C7 (amended): a full standard line is the address, a colon, TWO spaces
\* (the separator and the first segment's gap), eight bytes, two spaces,
\* eight bytes, two spaces and 16 characters, each byte in 0x20..0x7E shown as
\* itself and every other byte as a dot.
C7_FullLine ==
  \A k \in 1..Len(calls) :
    IsFullStdLine(calls[k]) => stdout[k] = FullLineTemplate(calls[k], 2)

C7_Witness ==
  \E k \in 1..Len(calls) :
    /\ IsFullStdLine(calls[k])
    /\ \E j \in 1..15 : calls[k].bytes[j] = 126 /\ calls[k].bytes[j + 1] = 127

\* ------------------------------------------------------------------ C8
\* C8: in the standard layout the byte with address a is in hex slot a mod 16
\* and its character at offset a mod 16 of the ASCII column, which starts at
\* the same text column on every line; left padding is the starting address
\* mod 16 on the first line and 0 on every later line, and 0 on every line
\* of the wozmon layout.
C8_Alignment ==
  Resolved =>
    \A k \in 1..Len(calls) :
      LET c == calls[k]
          l == stdout[k]
      IN /\ c.fmt.left_padding =
              (IF ~woz /\ k = 1 THEN StartAddress % 16 ELSE 0)
         /\ ~woz =>
              \A j \in 1..Len(c.bytes) :
                LET s == (c.line_addr + j - 1) % 16
                IN /\ SubSeq(l, 5 + StdSlotOffset(s) + 1, 5 + StdSlotOffset(s) + 3)
                        = <<" ">> \o Hex2(c.bytes[j])
                   /\ 5 + (16 * 3 + 2) + 2 + s + 1 <= Len(l)
                   /\ l[5 + (16 * 3 + 2) + 2 + s + 1] = ShownChar(c.bytes[j])

C8_Witness ==
  /\ Resolved /\ ~woz
  /\ Len(calls) >= 3
  /\ calls[1].fmt.left_padding = 11
  /\ calls[2].fmt.left_padding = 0

\* ------------------------------------------------------------------ C9
\* C9: in the read loop line_addr + len(line_buffer) = addr and addr is the
\* starting address plus the bytes read by the loop, unmasked; every line
\* is labelled with the low 16 bits of the address of its first byte, and
\* the bytes of a line share one bytes_per_line block, hence one 64K page.
C9_LineAddress ==
  Resolved =>
    /\ pc = "loop" =>
         /\ line_addr + Len(line_buffer) = addr
         /\ addr = StartAddress + (reader_pos - OriginBytes)
    /\ \A k \in 1..Len(calls) :
         LET c == calls[k]
             last == c.line_addr + Len(c.bytes) - 1
         IN /\ c.line_addr = StartAddress + Len(CallBytes(SubSeq(calls, 1, k - 1)))
            /\ DisplayedAddr(stdout[k]) = c.line_addr % 65536
            /\ last \div BytesPerLine = c.line_addr \div BytesPerLine
            /\ last \div 65536 = c.line_addr \div 65536

C9_Witness ==
  /\ Resolved /\ pc = "loop"
  /\ StartAddress < 65536 /\ StartAddress % BytesPerLine # 0
  /\ line_addr > 65536
  /\ Len(calls) >= 2
  /\ Len(line_buffer) >= 2

\* ------------------------------------------------------------------ C10
\* C10: print_buffer gets between 1 and bytes_per_line bytes, with
\* left_padding + bytes <= bytes_per_line, and prints every one of them in
\* hex; the bytes printed on all lines, in order, followed by those waiting
\* in the line buffer, are the bytes read after the origin bytes, and at the
\* end of the run they are the whole file after the origin bytes.
C10_NoByteLost ==
  Resolved =>
    /\ \A k \in 1..Len(calls) :
         LET c == calls[k]
         IN /\ Len(c.bytes) \in 1..c.fmt.bytes_per_line
            /\ c.fmt.left_padding + Len(c.bytes) <= c.fmt.bytes_per_line
            /\ PrintedBytes(stdout[k]) = c.bytes
    /\ Len(stdout) = Len(calls)
    /\ AllPrintedBytes(stdout) \o (IF pc = "loop" THEN line_buffer ELSE <<>>)
         = SubSeq(file.bytes, OriginBytes + 1, reader_pos)
    /\ exit = "ok" =>
         AllPrintedBytes(stdout) = SubSeq(file.bytes, OriginBytes + 1, Len(file.bytes))

C10_Witness ==
  /\ Resolved /\ exit = "ok"
  /\ Len(stdout) >= 3
  /\ Len(calls[1].bytes) < BytesPerLine
  /\ Len(calls[Len(calls)].bytes) < BytesPerLine
  /\ Len(AllPrintedBytes(stdout)) = Remaining

====
